---- MODULE Spec2Model ----
(***************************************************************************)
(* A model of src/Todo_manager.py: the TodoItem record and its overlap     *)
(* predicate, the TodoManager store (load, save, add, list, toggle,        *)
(* delete) with its persisted snapshot, and the time-block validation.     *)
(*                                                                         *)
(* Points in time (datetime.datetime) are naturals, the minutes since      *)
(* datetime.min; an absent Optional is None.  A text is a sequence of      *)
(* one-character strings.                                                  *)
(***************************************************************************)
EXTENDS Integers, Sequences, FiniteSets, TLC

VARIABLES
    todos,  \* TodoManager.todos: the in-memory list of TodoItem
    file,   \* the content of storage_file (todos.json)
    out,    \* the call on the manager of the last step: arguments, result, output
    call    \* the last call of a module-level function, or the last command of
            \* main: arguments (inputs) and result

vars == <<todos, file, out, call>>

\* ------------------------------------------------------------------ bounds

\* the largest store the model grows (add_todo is not taken beyond it)
MaxLen == 3
\* points in time are 0..MaxTime
MaxTime == 2
\* priorities handed to the constructor are 1..MaxPriority
MaxPriority == 3
\* the snapshots Spec starts from hold at most MaxLoad records
MaxLoad == 2

\* ------------------------------------------------------------ basic values

\* Python's None, for the Optional fields (every point in time is >= 0)
None == -1
\* datetime.datetime.max, the key of an item without deadline / time block:
\* later than every point in time the model builds
DatetimeMax == 2147483647
\* the default of the constructor's priority parameter
DefaultPriority == 3
\* the shortest time block validate_time_block accepts, in seconds
MinBlockSeconds == 600

\* the largest priority number main accepts (the lowest priority)
LowestPriority == 5

Times == 0..MaxTime
OptTimes == Times \cup {None}
Titles == {"a", "b"}
Priorities == 1..MaxPriority
\* id(self) is the object's address: any address no live item holds
Addresses == 1..MaxLen

Min(S) == CHOOSE x \in S : \A y \in S : x <= y
Reverse(s) == [i \in 1..Len(s) |-> s[Len(s) + 1 - i]]

\* ---------------------------------------------------------------- TodoItem

\* TodoItem.__init__; addr is the value of id(self)
TodoItem(title, deadline, priority, completed, time_block_start, time_block_end, addr) ==
    [ title |-> title,
      deadline |-> deadline,
      priority |-> priority,
      completed |-> completed,
      time_block_start |-> time_block_start,
      time_block_end |-> time_block_end,
      id |-> addr ]

\* datetime.isoformat / datetime.fromisoformat: the text of a point in time
isoformat(t) == <<"iso", t>>
fromisoformat(s) == s[2]

\* TodoItem.to_dict
to_dict(self) ==
    [ id |-> self.id,
      title |-> self.title,
      deadline |-> IF self.deadline # None THEN isoformat(self.deadline) ELSE <<>>,
      priority |-> self.priority,
      completed |-> self.completed,
      time_block_start |-> IF self.time_block_start # None
                           THEN isoformat(self.time_block_start) ELSE <<>>,
      time_block_end |-> IF self.time_block_end # None
                         THEN isoformat(self.time_block_end) ELSE <<>> ]

\* TodoItem.from_dict; data["id"] is not read, the new object has its own id
from_dict(data, addr) ==
    TodoItem(data.title,
             IF data.deadline # <<>> THEN fromisoformat(data.deadline) ELSE None,
             data.priority,
             data.completed,
             IF data.time_block_start # <<>>
             THEN fromisoformat(data.time_block_start) ELSE None,
             IF data.time_block_end # <<>>
             THEN fromisoformat(data.time_block_end) ELSE None,
             addr)

\* has_time_conflict with other's end read where its start is meant
has_time_conflict_wrong_field(self, other) ==
    IF self.time_block_start = None \/ self.time_block_end = None THEN FALSE
    ELSE IF other.time_block_start = None \/ other.time_block_end = None THEN FALSE
    ELSE /\ self.time_block_start < other.time_block_end
         /\ self.time_block_end > other.time_block_end

\* has_time_conflict with <= and >= for < and >
has_time_conflict_closed(self, other) ==
    IF self.time_block_start = None \/ self.time_block_end = None THEN FALSE
    ELSE IF other.time_block_start = None \/ other.time_block_end = None THEN FALSE
    ELSE /\ self.time_block_start <= other.time_block_end
         /\ self.time_block_end >= other.time_block_start

\* has_time_conflict with <= for < in the first comparison alone
has_time_conflict_half_closed(self, other) ==
    IF self.time_block_start = None \/ self.time_block_end = None THEN FALSE
    ELSE IF other.time_block_start = None \/ other.time_block_end = None THEN FALSE
    ELSE /\ self.time_block_start <= other.time_block_end
         /\ self.time_block_end > other.time_block_start

\* has_time_conflict that answers False for the receiver itself
has_time_conflict_skip_self(self, other) ==
    IF self.id = other.id THEN FALSE
    ELSE IF self.time_block_start = None \/ self.time_block_end = None THEN FALSE
    ELSE IF other.time_block_start = None \/ other.time_block_end = None THEN FALSE
    ELSE /\ self.time_block_start < other.time_block_end
         /\ self.time_block_end > other.time_block_start

\* TodoItem.has_time_conflict
has_time_conflict(self, other) ==
    IF self.time_block_start = None \/ self.time_block_end = None THEN FALSE
    ELSE IF other.time_block_start = None \/ other.time_block_end = None THEN FALSE
    ELSE /\ self.time_block_start < other.time_block_end
         /\ self.time_block_end > other.time_block_start

\* ------------------------------------------------------------- TodoManager

\* the addresses no item of the list s holds
FreeAddresses(s) == Addresses \ {s[i].id : i \in 1..Len(s)}

\* the content of storage_file: absent, text json.load rejects, or a JSON list
MissingFile == [kind |-> "missing", data |-> <<>>]
UndecodableFile == [kind |-> "undecodable", data |-> <<>>]
JsonFile(records) == [kind |-> "json", data |-> records]

\* TodoManager.load_todos; addrs[i] is the id of the i-th object built
load_todos(f, addrs) ==
    IF f.kind = "json"
    THEN [i \in 1..Len(f.data) |-> from_dict(f.data[i], addrs[i])]
    ELSE <<>>

\* content open() cannot decode as text, a JSON scalar, and a JSON object
\* with the given keys; a JSON list may hold, besides the records of items,
\* records that lack a key, records whose timestamp is a text that is no ISO
\* time <<"text", _>> or a number <<"number", _>>, and values that are no
\* record at all: [number |-> _], [string |-> _]
NotTextFile == [kind |-> "not_text", data |-> <<>>]
JsonScalarFile == [kind |-> "json_scalar", data |-> <<>>]
JsonObjectFile(keys) == [kind |-> "json_object", data |-> [i \in 1..Len(keys) |-> [string |-> keys[i]]]]

\* the exception datetime.fromisoformat raises on the JSON value v, "None"
\* when it returns
fromisoformat_raises(v) ==
    IF v[1] = "iso" THEN "None"
    ELSE IF v[1] = "text" THEN "ValueError"
    ELSE "TypeError"

\* the exception the argument of from_dict built from data[key] raises,
\* "None" when it evaluates; timestamp says the value goes to fromisoformat
\* when it is truthy
from_dict_argument_raises(data, key, timestamp) ==
    IF key \notin DOMAIN data THEN "KeyError"
    ELSE IF timestamp /\ data[key] # <<>> THEN fromisoformat_raises(data[key])
    ELSE "None"

\* the exception TodoItem.from_dict raises on data, "None" when it returns:
\* the arguments are evaluated in the order they are written
from_dict_raises(data) ==
    LET keys == <<"title", "deadline", "priority", "completed",
                  "time_block_start", "time_block_end">>
        raises == [i \in 1..6 |->
                      from_dict_argument_raises(data, keys[i], i \in {2, 5, 6})]
        failing == {i \in 1..6 : raises[i] # "None"}
    IN  IF DOMAIN data \cap {"number", "string"} # {} THEN "TypeError"
        ELSE IF failing = {} THEN "None"
        ELSE raises[Min(failing)]

\* the exception that leaves TodoManager.load_todos on the content f, "None"
\* when it returns: FileNotFoundError and json.JSONDecodeError are caught
load_todos_raises(f) ==
    IF f.kind \in {"missing", "undecodable"} THEN "None"
    ELSE IF f.kind = "not_text" THEN "UnicodeDecodeError"
    ELSE IF f.kind = "json_scalar" THEN "TypeError"
    ELSE LET failing == {i \in 1..Len(f.data) : from_dict_raises(f.data[i]) # "None"}
         IN  IF failing = {} THEN "None"
             ELSE from_dict_raises(f.data[Min(failing)])

\* TodoManager.save_todos: the content the file has after the dump
save_todos(list) == JsonFile([i \in 1..Len(list) |-> to_dict(list[i])])

\* the record of a call on the manager
Out(op, args, ret, printed, shown, wrote) ==
    [op |-> op, args |-> args, ret |-> ret, printed |-> printed,
     shown |-> shown, wrote |-> wrote]

\* add_todo without the return after the conflict message
add_todo_no_return(todo) ==
    LET conflicts == {i \in 1..Len(todos) : has_time_conflict(todo, todos[i])}
    IN  /\ Len(todos) < MaxLen
        /\ todos' = Append(todos, todo)
        /\ file' = save_todos(todos')
        /\ out' = Out("add_todo", <<todo>>, "True",
                      IF conflicts # {}
                      THEN <<"conflict", todos[Min(conflicts)].title, "added">>
                      ELSE <<"added">>,
                      <<>>, TRUE)

\* add_todo with insert(0, todo) for append(todo)
add_todo_insert_first(todo) ==
    LET conflicts == {i \in 1..Len(todos) : has_time_conflict(todo, todos[i])}
    IN  IF conflicts # {}
        THEN /\ out' = Out("add_todo", <<todo>>, "False",
                           <<"conflict", todos[Min(conflicts)].title>>, <<>>, FALSE)
             /\ UNCHANGED <<todos, file>>
        ELSE /\ Len(todos) < MaxLen
             /\ todos' = <<todo>> \o todos
             /\ file' = save_todos(todos')
             /\ out' = Out("add_todo", <<todo>>, "True", <<"added">>, <<>>, TRUE)

\* TodoManager.add_todo
add_todo(todo) ==
    LET conflicts == {i \in 1..Len(todos) : has_time_conflict(todo, todos[i])}
    IN  IF conflicts # {}
        THEN /\ out' = Out("add_todo", <<todo>>, "False",
                           <<"conflict", todos[Min(conflicts)].title>>, <<>>, FALSE)
             /\ UNCHANGED <<todos, file>>
        ELSE /\ Len(todos) < MaxLen
             /\ todos' = Append(todos, todo)
             /\ file' = save_todos(todos')
             /\ out' = Out("add_todo", <<todo>>, "True", <<"added">>, <<>>, TRUE)

\* get_sort_key of TodoManager.list_todos
get_sort_key(todo, sort_by) ==
    IF sort_by = "priority" THEN todo.priority
    ELSE IF sort_by = "deadline"
         THEN (IF todo.deadline # None THEN todo.deadline ELSE DatetimeMax)
    ELSE IF sort_by = "time"
         THEN (IF todo.time_block_start # None THEN todo.time_block_start ELSE DatetimeMax)
    ELSE todo.id

\* one step of a stable ascending sort: x goes after every element whose key
\* is not greater than its own
RECURSIVE InsertByKey(_, _)
InsertByKey(x, s) ==
    IF s = <<>> THEN <<x>>
    ELSE IF s[Len(s)][1] <= x[1] THEN Append(s, x)
    ELSE Append(InsertByKey(x, SubSeq(s, 1, Len(s) - 1)), s[Len(s)])

\* the stable ascending sort of a list of <<key, item>> pairs
RECURSIVE StableSort(_)
StableSort(s) ==
    IF s = <<>> THEN <<>>
    ELSE InsertByKey(s[Len(s)], StableSort(SubSeq(s, 1, Len(s) - 1)))

\* sorted with reverse as a reversal of the ascending result
sorted_then_reversed(list, sort_by, reverse) ==
    LET keyed == [i \in 1..Len(list) |-> <<get_sort_key(list[i], sort_by), list[i]>>]
        done == IF reverse THEN Reverse(StableSort(keyed)) ELSE StableSort(keyed)
    IN  [i \in 1..Len(list) |-> done[i][2]]

\* sorted(list, key=..., reverse=...): list.sort reverses the list before and
\* after a stable ascending sort when reverse is set
sorted(list, sort_by, reverse) ==
    LET keyed == [i \in 1..Len(list) |-> <<get_sort_key(list[i], sort_by), list[i]>>]
        done == IF reverse THEN Reverse(StableSort(Reverse(keyed)))
                ELSE StableSort(keyed)
    IN  [i \in 1..Len(list) |-> done[i][2]]

\* the reverse argument with the comparison turned round
sort_reverse_inverted(sort_by) == sort_by = "priority"

\* the reverse argument list_todos passes to sorted
sort_reverse(sort_by) == sort_by # "priority"

\* the items list_todos prints, in order: the print loop raises AttributeError
\* at the first item with a start and no end (None.strftime)
RECURSIVE printed_prefix(_)
printed_prefix(s) ==
    IF s = <<>> THEN <<>>
    ELSE IF s[1].time_block_start # None /\ s[1].time_block_end = None THEN <<>>
    ELSE <<s[1]>> \o printed_prefix(Tail(s))

\* list_todos with self.todos.sort(...) for sorted(self.todos, ...)
list_todos_in_place(sort_by) ==
    /\ todos' = sorted(todos, sort_by, sort_reverse(sort_by))
    /\ out' = Out("list_todos", <<sort_by>>, "None",
                  IF todos = <<>> THEN <<"empty">> ELSE <<"lines">>,
                  IF todos = <<>> THEN <<>> ELSE todos', FALSE)
    /\ UNCHANGED file

\* TodoManager.list_todos
list_todos(sort_by) ==
    /\ IF todos = <<>>
       THEN out' = Out("list_todos", <<sort_by>>, "None", <<"empty">>, <<>>, FALSE)
       ELSE LET sorted_todos == sorted(todos, sort_by, sort_reverse(sort_by))
                shown == printed_prefix(sorted_todos)
            IN  out' = Out("list_todos", <<sort_by>>,
                           IF Len(shown) = Len(sorted_todos) THEN "None"
                           ELSE "AttributeError",
                           <<"lines">>, shown, FALSE)
    /\ UNCHANGED <<todos, file>>

\* toggle_complete without the save_todos call
toggle_complete_no_save(index) ==
    IF 0 <= index /\ index < Len(todos)
    THEN /\ todos' = [todos EXCEPT ![index + 1].completed = ~todos[index + 1].completed]
         /\ out' = Out("toggle_complete", <<index>>, "None", <<"updated">>, <<>>, FALSE)
         /\ UNCHANGED file
    ELSE /\ out' = Out("toggle_complete", <<index>>, "None", <<>>, <<>>, FALSE)
         /\ UNCHANGED <<todos, file>>

\* toggle_complete with the guard index < len(self.todos): a negative index
\* within -len..-1 then counts from the end of the list
toggle_complete_no_lower_bound(index) ==
    IF index < Len(todos) /\ 0 - Len(todos) <= index
    THEN LET pos == IF index < 0 THEN Len(todos) + index + 1 ELSE index + 1
         IN  /\ todos' = [todos EXCEPT ![pos].completed = ~todos[pos].completed]
             /\ file' = save_todos(todos')
             /\ out' = Out("toggle_complete", <<index>>, "None", <<"updated">>, <<>>, TRUE)
    ELSE /\ out' = Out("toggle_complete", <<index>>, "None", <<>>, <<>>, FALSE)
         /\ UNCHANGED <<todos, file>>

\* toggle_complete with completed = True for completed = not completed
toggle_complete_mark_done(index) ==
    IF 0 <= index /\ index < Len(todos)
    THEN /\ todos' = [todos EXCEPT ![index + 1].completed = TRUE]
         /\ file' = save_todos(todos')
         /\ out' = Out("toggle_complete", <<index>>, "None", <<"updated">>, <<>>, TRUE)
    ELSE /\ out' = Out("toggle_complete", <<index>>, "None", <<>>, <<>>, FALSE)
         /\ UNCHANGED <<todos, file>>

\* TodoManager.toggle_complete; index is the 0-based Python index
toggle_complete(index) ==
    IF 0 <= index /\ index < Len(todos)
    THEN /\ todos' = [todos EXCEPT ![index + 1].completed = ~todos[index + 1].completed]
         /\ file' = save_todos(todos')
         /\ out' = Out("toggle_complete", <<index>>, "None", <<"updated">>, <<>>, TRUE)
    ELSE /\ out' = Out("toggle_complete", <<index>>, "None", <<>>, <<>>, FALSE)
         /\ UNCHANGED <<todos, file>>

\* del list[index - 1] for del list[index], on a list that has the index
DelAt_off_by_one(list, index) ==
    [i \in 1..(Len(list) - 1) |-> IF i < index THEN list[i] ELSE list[i + 1]]

\* del list[index]
DelAt(list, index) ==
    [i \in 1..(Len(list) - 1) |-> IF i <= index THEN list[i] ELSE list[i + 1]]

\* TodoManager.delete_todo; index is the 0-based Python index
delete_todo(index) ==
    IF 0 <= index /\ index < Len(todos)
    THEN /\ todos' = DelAt(todos, index)
         /\ file' = save_todos(todos')
         /\ out' = Out("delete_todo", <<index>>, "None", <<"deleted">>, <<>>, TRUE)
    ELSE /\ out' = Out("delete_todo", <<index>>, "None", <<>>, <<>>, FALSE)
         /\ UNCHANGED <<todos, file>>

\* -------------------------------------------------------------- validation

Digits == <<"0", "1", "2", "3", "4", "5", "6", "7", "8", "9">>
IsDigit(c) == \E i \in 1..10 : Digits[i] = c
DigitValue(c) == (CHOOSE i \in 1..10 : Digits[i] = c) - 1
\* int() of a text of digits
RECURSIVE IntOf(_)
IntOf(t) == IF t = <<>> THEN 0 ELSE 10 * IntOf(SubSeq(t, 1, Len(t) - 1)) + DigitValue(t[Len(t)])

\* the length of the text the %H group takes at the head of t, 0 when none:
\* the alternatives of 2[0-3]|[0-1]\d|\d in order, each followed by the colon
HourLen(t) ==
    IF Len(t) >= 3 /\ t[1] = "2" /\ t[2] \in {"0", "1", "2", "3"} /\ t[3] = ":" THEN 2
    ELSE IF Len(t) >= 3 /\ t[1] \in {"0", "1"} /\ IsDigit(t[2]) /\ t[3] = ":" THEN 2
    ELSE IF Len(t) >= 2 /\ IsDigit(t[1]) /\ t[2] = ":" THEN 1
    ELSE 0

\* the length of the text the %M group takes at the head of t, 0 when none:
\* the alternatives of [0-5]\d|\d in order
MinuteLen(t) ==
    IF Len(t) >= 2 /\ t[1] \in {"0", "1", "2", "3", "4", "5"} /\ IsDigit(t[2]) THEN 2
    ELSE IF Len(t) >= 1 /\ IsDigit(t[1]) THEN 1
    ELSE 0

\* datetime.datetime.strptime(time_str, "%H:%M"): <<hour, minute>>, or <<>>
\* for ValueError (no match, or unconverted data after the match)
strptime_HM(time_str) ==
    LET hl == HourLen(time_str)
        rest == SubSeq(time_str, hl + 2, Len(time_str))
        ml == MinuteLen(rest)
    IN  IF hl = 0 \/ ml = 0 \/ ml # Len(rest) THEN <<>>
        ELSE <<IntOf(SubSeq(time_str, 1, hl)), IntOf(rest)>>

\* validate_time_format
validate_time_format(time_str) == strptime_HM(time_str) # <<>>

\* the seconds from midnight of the datetime strptime builds from <<hour, minute>>
SecondsOf(hm) == (hm[1] * 60 + hm[2]) * 60

\* validate_time_block with <= 600 for < 600
validate_time_block_le(start_time, end_time) ==
    IF ~validate_time_format(start_time)
    THEN <<FALSE, <<"start time format invalid", start_time>>>>
    ELSE IF ~validate_time_format(end_time)
    THEN <<FALSE, <<"end time format invalid", end_time>>>>
    ELSE LET start == SecondsOf(strptime_HM(start_time))
             end == SecondsOf(strptime_HM(end_time))
         IN  IF start >= end THEN <<FALSE, <<"start must be before end">>>>
             ELSE IF end - start <= MinBlockSeconds
             THEN <<FALSE, <<"block shorter than 10 minutes">>>>
             ELSE <<TRUE, <<"time block valid">>>>

\* validate_time_block without the check of the duration
validate_time_block_no_minimum(start_time, end_time) ==
    IF ~validate_time_format(start_time)
    THEN <<FALSE, <<"start time format invalid", start_time>>>>
    ELSE IF ~validate_time_format(end_time)
    THEN <<FALSE, <<"end time format invalid", end_time>>>>
    ELSE LET start == SecondsOf(strptime_HM(start_time))
             end == SecondsOf(strptime_HM(end_time))
         IN  IF start >= end THEN <<FALSE, <<"start must be before end">>>>
             ELSE <<TRUE, <<"time block valid">>>>

\* validate_time_block: <<is_valid, message>>
validate_time_block(start_time, end_time) ==
    IF ~validate_time_format(start_time)
    THEN <<FALSE, <<"start time format invalid", start_time>>>>
    ELSE IF ~validate_time_format(end_time)
    THEN <<FALSE, <<"end time format invalid", end_time>>>>
    ELSE LET start == SecondsOf(strptime_HM(start_time))
             end == SecondsOf(strptime_HM(end_time))
         IN  IF start >= end THEN <<FALSE, <<"start must be before end">>>>
             ELSE IF end - start < MinBlockSeconds
             THEN <<FALSE, <<"block shorter than 10 minutes">>>>
             ELSE <<TRUE, <<"time block valid">>>>

\* the call of validate_time_block returns
ValidateTimeBlock ==
    /\ call.fn = "validate_time_block"
    /\ call.result = <<>>
    /\ call' = [call EXCEPT !.result = validate_time_block(call.args[1], call.args[2])]
    /\ UNCHANGED <<todos, file, out>>

\* ------------------------------------------------------------ parse_datetime

DigitSet == {Digits[i] : i \in 1..10}
NonZeroDigits == DigitSet \ {"0"}
\* the i-th character of t is one of S
IsIn(t, i, S) == i <= Len(t) /\ t[i] \in S
\* one alternative of a directive's pattern: its length when it matches
Alternative(matches, len) == IF matches THEN <<len>> ELSE <<>>

\* the lengths of the texts at the head of t that the pattern of the
\* directive d takes, in the order the regular expression tries them:
\* Y \d\d\d\d, m 1[0-2]|0[1-9]|[1-9], d 3[0-1]|[1-2]\d|0[1-9]|[1-9]| [1-9],
\* H 2[0-3]|[0-1]\d|\d, M [0-5]\d|\d
DirectiveLengths(d, t) ==
    IF d = "Y" THEN Alternative(\A i \in 1..4 : IsIn(t, i, DigitSet), 4)
    ELSE IF d = "m"
    THEN Alternative(IsIn(t, 1, {"1"}) /\ IsIn(t, 2, {"0", "1", "2"}), 2)
         \o Alternative(IsIn(t, 1, {"0"}) /\ IsIn(t, 2, NonZeroDigits), 2)
         \o Alternative(IsIn(t, 1, NonZeroDigits), 1)
    ELSE IF d = "d"
    THEN Alternative(IsIn(t, 1, {"3"}) /\ IsIn(t, 2, {"0", "1"}), 2)
         \o Alternative(IsIn(t, 1, {"1", "2"}) /\ IsIn(t, 2, DigitSet), 2)
         \o Alternative(IsIn(t, 1, {"0"}) /\ IsIn(t, 2, NonZeroDigits), 2)
         \o Alternative(IsIn(t, 1, NonZeroDigits), 1)
         \o Alternative(IsIn(t, 1, {" "}) /\ IsIn(t, 2, NonZeroDigits), 2)
    ELSE IF d = "H"
    THEN Alternative(IsIn(t, 1, {"2"}) /\ IsIn(t, 2, {"0", "1", "2", "3"}), 2)
         \o Alternative(IsIn(t, 1, {"0", "1"}) /\ IsIn(t, 2, DigitSet), 2)
         \o Alternative(IsIn(t, 1, DigitSet), 1)
    ELSE IF d = "M"
    THEN Alternative(IsIn(t, 1, {"0", "1", "2", "3", "4", "5"}) /\ IsIn(t, 2, DigitSet), 2)
         \o Alternative(IsIn(t, 1, DigitSet), 1)
    ELSE <<>>

\* the lengths \s+ takes at the head of t, the longest first
WhitespaceLengths(t) ==
    LET run == Min({i \in 0..Len(t) : ~IsIn(t, i + 1, {" "})})
    IN  [i \in 1..run |-> run + 1 - i]

\* re.match of the pattern of the format fmt on t, with backtracking: <<>>
\* when there is no match, else <<m>> with the length matched and the text
\* of each directive's group.  TryLengths takes the lengths lens the head of
\* the format can match, in order, and goes on with the rest of the format
\* after each until one succeeds
RECURSIVE MatchFormat(_, _), TryLengths(_, _, _, _)
TryLengths(fmt, t, lens, group) ==
    IF lens = <<>> THEN <<>>
    ELSE LET m == MatchFormat(fmt, SubSeq(t, lens[1] + 1, Len(t)))
         IN  IF m = <<>> THEN TryLengths(fmt, t, Tail(lens), group)
             ELSE <<[len |-> lens[1] + m[1].len,
                     groups |-> (IF group = "" THEN <<>>
                                 ELSE <<<<group, SubSeq(t, 1, lens[1])>>>>)
                                \o m[1].groups]>>
MatchFormat(fmt, t) ==
    IF fmt = <<>> THEN <<[len |-> 0, groups |-> <<>>]>>
    ELSE IF fmt[1] = "%"
    THEN TryLengths(SubSeq(fmt, 3, Len(fmt)), t, DirectiveLengths(fmt[2], t), fmt[2])
    ELSE IF fmt[1] = " "
    THEN TryLengths(Tail(fmt), t, WhitespaceLengths(t), "")
    ELSE TryLengths(Tail(fmt), t, Alternative(IsIn(t, 1, {fmt[1]}), 1), "")

\* int() of the group of the directive d, or the default when the format
\* has no such directive
GroupValue(groups, d, default) ==
    LET at == {i \in 1..Len(groups) : groups[i][1] = d}
    IN  IF at = {} THEN default
        ELSE IntOf(SelectSeq(groups[Min(at)][2], IsDigit))

IsLeapYear(y) == y % 4 = 0 /\ (y % 100 # 0 \/ y % 400 = 0)
DaysInMonth(y, m) ==
    IF m = 2 THEN (IF IsLeapYear(y) THEN 29 ELSE 28)
    ELSE IF m \in {4, 6, 9, 11} THEN 30
    ELSE 31
RECURSIVE DaysBeforeMonth(_, _)
DaysBeforeMonth(y, m) ==
    IF m = 1 THEN 0 ELSE DaysBeforeMonth(y, m - 1) + DaysInMonth(y, m - 1)
\* the days from 0001-01-01 to the first day of the year y
DaysBeforeYear(y) ==
    365 * (y - 1) + ((y - 1) \div 4) - ((y - 1) \div 100) + ((y - 1) \div 400)

\* datetime.datetime(year, month, day, hour, minute) as a point in time: the
\* minutes since datetime.min
datetime(year, month, day, hour, minute) ==
    ((DaysBeforeYear(year) + DaysBeforeMonth(year, month) + day - 1) * 24 + hour) * 60
    + minute

\* datetime.datetime.strptime(data_string, format): <<>> for ValueError (no
\* match, unconverted data, year 0, a day the month does not have), else
\* <<the point in time>>; year, hour and minute default to 1900, 0 and 0
strptime(data_string, fmt) ==
    LET found == MatchFormat(fmt, data_string)
    IN  IF found = <<>> THEN <<>>
        ELSE IF found[1].len # Len(data_string) THEN <<>>
        ELSE LET year == GroupValue(found[1].groups, "Y", 1900)
                 month == GroupValue(found[1].groups, "m", 1)
                 day == GroupValue(found[1].groups, "d", 1)
                 hour == GroupValue(found[1].groups, "H", 0)
                 minute == GroupValue(found[1].groups, "M", 0)
             IN  IF year < 1 \/ day > DaysInMonth(year, month) THEN <<>>
                 ELSE <<datetime(year, month, day, hour, minute)>>

\* the list formats of parse_datetime
formats ==
    <<<<"%", "Y", "-", "%", "m", "-", "%", "d", " ", "%", "H", ":", "%", "M">>,
      <<"%", "Y", "-", "%", "m", "-", "%", "d">>,
      <<"%", "m", "-", "%", "d", " ", "%", "H", ":", "%", "M">>,
      <<"%", "m", "-", "%", "d">>>>

\* c in f
Contains(f, c) == \E i \in 1..Len(f) : f[i] = c
\* the condition of the list comprehension that filters the formats
KeptWithoutTime(f) == ~Contains(f, "%") \/ ~Contains(f, "H")

\* the value of the first format of fmts that parses input_str, None when
\* none does
RECURSIVE FirstParse(_, _)
FirstParse(fmts, input_str) ==
    IF fmts = <<>> THEN None
    ELSE LET parsed == strptime(input_str, fmts[1])
         IN  IF parsed # <<>> THEN parsed[1] ELSE FirstParse(Tail(fmts), input_str)

\* parse_datetime: the formats are filtered only when has_time is False
parse_datetime(input_str, has_time) ==
    FirstParse(IF ~has_time THEN SelectSeq(formats, KeptWithoutTime) ELSE formats,
               input_str)

\* the call of parse_datetime returns
ParseDatetime ==
    /\ call.fn = "parse_datetime"
    /\ call.result = <<>>
    /\ call' = [call EXCEPT !.result = <<parse_datetime(call.args[1], call.args[2])>>]
    /\ UNCHANGED <<todos, file, out>>

\* the calls a.has_time_conflict(b) and b.has_time_conflict(a) return
HasTimeConflict ==
    /\ call.fn = "has_time_conflict"
    /\ call.result = <<>>
    /\ call' = [call EXCEPT !.result =
                   <<has_time_conflict(call.args[1], call.args[2]),
                     has_time_conflict(call.args[2], call.args[1])>>]
    /\ UNCHANGED <<todos, file, out>>

\* the call TodoItem.from_dict(item.to_dict()) returns; the object built has
\* the address it is allocated at for id
FromDictToDict ==
    /\ call.fn = "from_dict"
    /\ call.result = <<>>
    /\ \E addr \in Addresses :
          call' = [call EXCEPT !.result = <<from_dict(to_dict(call.args[1]), addr)>>]
    /\ UNCHANGED <<todos, file, out>>

\* the call TodoManager(storage_file) returns or raises: the result is the
\* exception that leaves it, "None" when the manager is built
ConstructManager ==
    /\ call.fn = "TodoManager"
    /\ call.result = <<>>
    /\ LET raised == load_todos_raises(file)
       IN  IF raised = "None"
           THEN /\ \E addrs \in [1..Len(file.data) -> Addresses] :
                      /\ \A i, j \in 1..Len(file.data) : i # j => addrs[i] # addrs[j]
                      /\ todos' = load_todos(file, addrs)
                /\ call' = [call EXCEPT !.result = <<"None">>]
           ELSE /\ todos' = todos
                /\ call' = [call EXCEPT !.result = <<raised>>]
    /\ UNCHANGED <<file, out>>

\* toggle_complete(index) is called, up to twice in a row; the result keeps
\* the list each call found
ToggleAgain ==
    /\ call.fn = "toggle_complete"
    /\ Len(call.result) < 2
    /\ toggle_complete(call.args[1])
    /\ call' = [call EXCEPT !.result = Append(call.result, todos)]

\* ------------------------------------------------------------------ inputs

\* the time blocks of the candidates: none, or a start before an end
Blocks == {b \in Times \X Times : b[1] < b[2]} \cup {<<None, None>>}
\* the candidates of the store specifications: constructor defaults but for
\* the title and the time block
BlockItems(addrs) ==
    {TodoItem(t, None, DefaultPriority, FALSE, b[1], b[2], a) :
        t \in Titles, b \in Blocks, a \in addrs}
\* candidates without deadline and time block
PlainItems(addrs) ==
    {TodoItem(t, None, DefaultPriority, FALSE, None, None, a) : t \in Titles, a \in addrs}
\* items that differ in priority alone
PriorityItems(addrs) ==
    {TodoItem("a", None, p, FALSE, None, None, a) : p \in Priorities, a \in addrs}
\* the items of the listing specification: constructor defaults but for one
\* of priority, deadline and time block
SortItems(addrs) ==
    PriorityItems(addrs)
    \cup {TodoItem("a", d, DefaultPriority, FALSE, None, None, a) : d \in OptTimes, a \in addrs}
    \cup {TodoItem("a", None, DefaultPriority, FALSE, s, s + 1, a) : s \in Times, a \in addrs}
\* the indices handed to toggle_complete and delete_todo
Indices == (0 - 1)..MaxLen
SortKeys == {"priority", "deadline", "time", "id"}

\* the texts handed to validate_time_block: hour text, separator, minute text
HourTexts == {<<"1", "3">>, <<"1", "4">>, <<"9">>, <<"0", "9">>, <<"2", "4">>, <<"1", "x">>, <<>>}
Separators == {<<":">>, <<"-">>}
MinuteTexts ==
    {<<"0", "0">>, <<"0", "5">>, <<"5">>, <<"0", "9">>, <<"1", "0">>, <<"5", "9">>,
     <<"6", "0">>, <<"0", "0", "0">>}
TimeTexts == {h \o c \o m : h \in HourTexts, c \in Separators, m \in MinuteTexts}

\* the items the constructor builds from any start and any end, each absent
\* or a point in time, in any order: it checks neither
AnyBlockItems(addrs) ==
    {TodoItem("a", None, DefaultPriority, FALSE, s, e, a) :
        s \in OptTimes, e \in OptTimes, a \in addrs}

\* the items of the round trip: every field takes each of its kinds of value
AnyItems(addrs) ==
    {TodoItem(t, d, p, c, s, e, a) :
        t \in Titles, d \in OptTimes, p \in Priorities, c \in BOOLEAN,
        s \in OptTimes, e \in OptTimes, a \in addrs}

\* the values a JSON list in the file may hold: the records of two items, a
\* record without the key deadline, a record whose deadline is no ISO time,
\* a record whose start is a number, and a number
LoadRecords ==
    {to_dict(TodoItem("a", None, DefaultPriority, FALSE, None, None, 1)),
     to_dict(TodoItem("b", 0, 1, TRUE, 0, 1, 1)),
     [id |-> 1, title |-> "a", priority |-> DefaultPriority, completed |-> FALSE,
      time_block_start |-> <<>>, time_block_end |-> <<>>],
     [to_dict(TodoItem("a", None, DefaultPriority, FALSE, None, None, 1))
         EXCEPT !.deadline = <<"text", 0>>],
     [to_dict(TodoItem("a", None, DefaultPriority, FALSE, None, None, 1))
         EXCEPT !.time_block_start = <<"number", 1>>],
     [number |-> 1]}
\* the contents of storage_file a manager may be built on
LoadFiles ==
    {MissingFile, UndecodableFile, NotTextFile, JsonScalarFile,
     JsonObjectFile(<<>>), JsonObjectFile(<<"a">>)}
    \cup {JsonFile(r) : r \in UNION {[1..k -> LoadRecords] : k \in 0..MaxLoad}}

\* items that differ in title and completed flag
FlagItems(addrs) ==
    {TodoItem(t, None, DefaultPriority, c, None, None, a) :
        t \in Titles, c \in BOOLEAN, a \in addrs}

\* the texts handed to parse_datetime: a date text and what follows it
DateTexts ==
    {<<"2", "0", "2", "3", "-", "1", "2", "-", "3", "1">>,
     <<"1", "2", "-", "3", "1">>,
     <<"2", "0", "2", "4", "-", "0", "2", "-", "2", "9">>,
     <<"2", "0", "2", "3", "-", "0", "2", "-", "2", "9">>,
     <<"0", "2", "-", "2", "9">>,
     <<"2", "0", "2", "3", "-", "1", "-", "5">>,
     <<"1", "2", "-", " ", "5">>,
     <<"0", "0", "0", "0", "-", "0", "1", "-", "0", "1">>,
     <<"2", "0", "2", "3", "-", "1", "3", "-", "0", "1">>,
     <<"2", "0", "2", "3", "/", "1", "2", "/", "3", "1">>,
     <<>>}
TimeSuffixes ==
    {<<>>,
     <<" ", "1", "0", ":", "0", "0">>,
     <<" ", " ", "9", ":", "5">>,
     <<" ", "2", "4", ":", "0", "0">>,
     <<"1", "0", ":", "0", "0">>,
     <<" ", "1", "0", ":", "0", "0", " ">>}
DatetimeTexts == {d \o t : d \in DateTexts, t \in TimeSuffixes}

NoCall == [fn |-> "none", args |-> <<>>, result |-> <<>>]
NoOut == Out("init", <<>>, "None", <<>>, <<>>, FALSE)

\* -------------------------------------------------------------------- main

\* str.strip() on blanks
RECURSIVE lstrip(_)
lstrip(t) == IF t # <<>> /\ t[1] = " " THEN lstrip(Tail(t)) ELSE t
RECURSIVE rstrip(_)
rstrip(t) == IF t # <<>> /\ t[Len(t)] = " " THEN rstrip(SubSeq(t, 1, Len(t) - 1)) ELSE t
strip(t) == rstrip(lstrip(t))

\* int(text): <<>> for ValueError, else <<the number>>; int takes blanks
\* around the number, a sign, and single underscores between digits
int(text) ==
    LET t == strip(text)
        signed == t # <<>> /\ t[1] \in {"+", "-"}
        body == IF signed THEN Tail(t) ELSE t
        wellformed ==
            /\ body # <<>>
            /\ \A i \in 1..Len(body) :
                  \/ IsDigit(body[i])
                  \/ /\ body[i] = "_" /\ 1 < i /\ i < Len(body)
                     /\ IsDigit(body[i - 1]) /\ IsDigit(body[i + 1])
        value == IntOf(SelectSeq(body, IsDigit))
    IN  IF ~wellformed THEN <<>>
        ELSE IF signed /\ t[1] = "-" THEN <<0 - value>>
        ELSE <<value>>

\* the text of n in width digits, zero padded
RECURSIVE zfill(_, _)
zfill(n, width) ==
    IF width = 0 THEN <<>> ELSE Append(zfill(n \div 10, width - 1), Digits[(n % 10) + 1])
\* str(today) of a datetime.date <<year, month, day>>
date_str(today) ==
    zfill(today[1], 4) \o <<"-">> \o zfill(today[2], 2) \o <<"-">> \o zfill(today[3], 2)

\* the parts of time_block_str.split("-", 1), on a text that holds a "-"
split_dash(t) ==
    LET dash == Min({i \in 1..Len(t) : t[i] = "-"})
    IN  <<SubSeq(t, 1, dash - 1), SubSeq(t, dash + 1, Len(t))>>

\* the key list_todos receives: input().strip() or "priority"; a text that
\* names none of the three keys makes get_sort_key return the id
sort_by_of(text) ==
    LET t == strip(text)
    IN  IF t = <<>> \/ t = <<"p", "r", "i", "o", "r", "i", "t", "y">> THEN "priority"
        ELSE IF t = <<"d", "e", "a", "d", "l", "i", "n", "e">> THEN "deadline"
        ELSE IF t = <<"t", "i", "m", "e">> THEN "time"
        ELSE "id"

\* the display number taken for the index it is
index_of_unshifted(number) == number

\* the index main hands to the manager for the number read: int(...) - 1
index_of(number) == number - 1

\* the record of a command of main: the command, the inputs it read, and
\* what main itself printed
Command(cmd, inputs, printed) ==
    [fn |-> "main", args |-> <<cmd>> \o inputs, result |-> printed]

\* the loop of main is running: exit has not been read
Running == ~(call.fn = "main" /\ call.args[1] = "exit")

\* a command that ends in main, without a call on the manager
Continue(cmd, inputs, printed) ==
    /\ call' = Command(cmd, inputs, printed)
    /\ out' = NoOut
    /\ UNCHANGED <<todos, file>>

\* the branch add of main; the four texts are what input() returns, today is
\* datetime.date.today(), addr the id of the item built; a check that fails
\* ends the command before the next text is read
cmd_add(title_in, deadline_in, priority_in, block_in, today, addr) ==
    LET title == strip(title_in)
        deadline_str == strip(deadline_in)
        deadline == IF deadline_str # <<>> THEN parse_datetime(deadline_str, FALSE) ELSE None
        priority_input == strip(priority_in)
        priority == IF priority_input # <<>> THEN int(priority_input) ELSE <<DefaultPriority>>
        time_block_str == strip(block_in)
        parts == split_dash(time_block_str)
        s == strip(parts[1])
        e == strip(parts[2])
        validation == validate_time_block(s, e)
        start == IF time_block_str # <<>>
                 THEN parse_datetime(date_str(today) \o <<" ">> \o s, TRUE) ELSE None
        end == IF time_block_str # <<>>
               THEN parse_datetime(date_str(today) \o <<" ">> \o e, TRUE) ELSE None
    IN  /\ Running
        /\ IF title = <<>>
           THEN Continue("add", <<title_in>>, <<"title must not be empty">>)
           ELSE IF deadline_str # <<>> /\ deadline = None
           THEN Continue("add", <<title_in, deadline_in>>,
                         <<"deadline format invalid", deadline_str>>)
           ELSE IF priority = <<>>
           THEN Continue("add", <<title_in, deadline_in, priority_in>>,
                         <<"priority must be a number">>)
           ELSE IF ~(1 <= priority[1] /\ priority[1] <= LowestPriority)
           THEN Continue("add", <<title_in, deadline_in, priority_in>>,
                         <<"priority must be 1-5">>)
           ELSE IF time_block_str # <<>> /\ ~Contains(time_block_str, "-")
           THEN Continue("add", <<title_in, deadline_in, priority_in, block_in>>,
                         <<"time block format invalid">>)
           ELSE IF time_block_str # <<>> /\ ~validation[1]
           THEN Continue("add", <<title_in, deadline_in, priority_in, block_in>>,
                         validation[2])
           ELSE /\ add_todo(TodoItem(title, deadline, priority[1], FALSE, start, end, addr))
                /\ call' = Command("add", <<title_in, deadline_in, priority_in, block_in>>, <<>>)

\* the branch list of main
cmd_list(sort_in) ==
    /\ Running
    /\ list_todos(sort_by_of(sort_in))
    /\ call' = Command("list", <<sort_in>>, <<>>)

\* the branch complete of main
cmd_complete(number_in) ==
    /\ Running
    /\ IF int(number_in) = <<>>
       THEN Continue("complete", <<number_in>>, <<"enter a number">>)
       ELSE /\ toggle_complete(index_of(int(number_in)[1]))
            /\ call' = Command("complete", <<number_in>>, <<>>)

\* the branch delete of main
cmd_delete(number_in) ==
    /\ Running
    /\ IF int(number_in) = <<>>
       THEN Continue("delete", <<number_in>>, <<"enter a number">>)
       ELSE /\ delete_todo(index_of(int(number_in)[1]))
            /\ call' = Command("delete", <<number_in>>, <<>>)

\* a command main does not know
cmd_unknown == Running /\ Continue("unknown", <<>>, <<"unknown command">>)

\* the branch exit of main: the loop ends
cmd_exit == Running /\ Continue("exit", <<>>, <<>>)

\* the texts typed at the prompts of main
TitleTexts == {<<"a">>, <<"b">>, <<>>, <<" ">>}
NumberInputs ==
    {<<"1">>, <<"2">>, <<"3">>, <<"4">>, <<"0">>, <<"-", "1">>, <<" ", "2">>,
     <<"x">>, <<>>, <<"1", ".", "0">>}
SortTexts ==
    {<<>>,
     <<"t", "i", "m", "e">>,
     <<"d", "e", "a", "d", "l", "i", "n", "e">>,
     <<"i", "d">>}
\* the days main runs on
Todays == {<<2026, 11, 3>>}
\* the four texts of an add that names a title and nothing else
PlainAddInputs == {<<t, <<>>, <<>>, <<>>>> : t \in TitleTexts}
\* the texts of the adds of every kind
AddTitles == {<<"a">>, <<" ", "a">>, <<>>}
AddDeadlines ==
    {<<"2", "0", "2", "6", "-", "1", "2", "-", "3", "1">>,
     <<"2", "0", "2", "6", "-", "1", "2", "-", "3", "1", " ", "1", "0", ":", "0", "0">>,
     <<"0", "2", "-", "3", "0">>}
AddPriorities == {<<"1">>, <<"5">>, <<"0">>, <<"6">>, <<"x">>}
AddBlocks ==
    {<<"1", "4", ":", "0", "0", "-", "1", "4", ":", "1", "0">>,
     <<"1", "4", ":", "1", "0", "-", "1", "5", ":", "0", "0">>,
     <<"1", "4", ":", "0", "5", "-", "1", "4", ":", "3", "0">>,
     <<"1", "4", ":", "0", "0", "-", "1", "4", ":", "0", "9">>,
     <<"1", "5", ":", "0", "0", "-", "1", "4", ":", "0", "0">>,
     <<"1", "4", ":", "0", "0">>,
     <<"1", "4", ":", "0", "0", "-", "2", "5", ":", "0", "0">>}
\* the four texts of an add: the title a and nothing else, but for one text
AddInputs ==
    {<<t, <<>>, <<>>, <<>>>> : t \in AddTitles}
    \cup {<<<<"a">>, d, <<>>, <<>>>> : d \in AddDeadlines}
    \cup {<<<<"a">>, <<>>, p, <<>>>> : p \in AddPriorities}
    \cup {<<<<"a">>, <<>>, <<>>, b>> : b \in AddBlocks}
\* the few numbers and keys typed beside the adds of AddInputs
FewNumberInputs == {<<"1">>, <<"x">>}
FewSortTexts == {<<>>, <<"t", "i", "m", "e">>}

\* the snapshots found at construction: records of at most n items of S
SnapshotsOf(S, n) ==
    {JsonFile(r) : r \in UNION {[1..k -> {to_dict(x) : x \in S}] : k \in 0..n}}
Snapshots == {MissingFile, UndecodableFile} \cup SnapshotsOf(BlockItems({1}), MaxLoad)

\* TodoManager.__init__ on the snapshot f
Construct(f) ==
    /\ file = f
    /\ \E addrs \in [1..Len(f.data) -> Addresses] :
          /\ \A i, j \in 1..Len(f.data) : i # j => addrs[i] # addrs[j]
          /\ todos = load_todos(f, addrs)
    /\ out = NoOut

\* a store with no snapshot
InitFresh == Construct(MissingFile) /\ call = NoCall

\* a store on any snapshot
Init == (\E f \in Snapshots : Construct(f)) /\ call = NoCall

\* a store on any snapshot of the listing items
InitList == (\E f \in SnapshotsOf(SortItems({1}), MaxLen) : Construct(f)) /\ call = NoCall

\* a store on any snapshot of items that differ in priority
InitPriority ==
    (\E f \in SnapshotsOf(PriorityItems({1}), MaxLen) : Construct(f)) /\ call = NoCall

\* a call of validate_time_block on any two texts, beside an empty store
InitValidate ==
    /\ Construct(MissingFile)
    /\ \E s, e \in TimeTexts :
          call = [fn |-> "validate_time_block", args |-> <<s, e>>, result |-> <<>>]

\* a call of has_time_conflict on any two items, or on one item and itself,
\* beside an empty store
InitConflict ==
    /\ Construct(MissingFile)
    /\ \E a \in AnyBlockItems({1}), b \in AnyBlockItems({1, 2}) :
          /\ b.id = a.id => b = a
          /\ call = [fn |-> "has_time_conflict", args |-> <<a, b>>, result |-> <<>>]

\* a call of from_dict on the record of any item, beside an empty store
InitRoundTrip ==
    /\ Construct(MissingFile)
    /\ \E item \in AnyItems({1}) :
          call = [fn |-> "from_dict", args |-> <<item>>, result |-> <<>>]

\* the construction of a manager on any content of the file
InitLoad ==
    /\ file \in LoadFiles
    /\ todos = <<>>
    /\ out = NoOut
    /\ call = [fn |-> "TodoManager", args |-> <<>>, result |-> <<>>]

\* main has built its manager on no snapshot and shown its banner
InitMain == Construct(MissingFile) /\ call = Command("start", <<>>, <<"banner">>)

\* the commands of main, on the texts of the two command specifications
MainAddPlain ==
    \E i \in PlainAddInputs, today \in Todays, addr \in FreeAddresses(todos) :
        cmd_add(i[1], i[2], i[3], i[4], today, addr)
MainAdd ==
    \E i \in AddInputs, today \in Todays, addr \in FreeAddresses(todos) :
        cmd_add(i[1], i[2], i[3], i[4], today, addr)
MainList == \E sort_in \in SortTexts : cmd_list(sort_in)
MainListFew == \E sort_in \in FewSortTexts : cmd_list(sort_in)
MainComplete == \E number_in \in NumberInputs : cmd_complete(number_in)
MainCompleteFew == \E number_in \in FewNumberInputs : cmd_complete(number_in)
MainDelete == \E number_in \in NumberInputs : cmd_delete(number_in)
MainDeleteFew == \E number_in \in FewNumberInputs : cmd_delete(number_in)

\* the calls on the manager; no module-level function is called
\* two calls of toggle_complete with one index to come, on a store on any
\* snapshot of items completed or not
InitToggle ==
    /\ \E f \in SnapshotsOf(FlagItems({1}), MaxLen) : Construct(f)
    /\ \E index \in Indices :
          call = [fn |-> "toggle_complete", args |-> <<index>>, result |-> <<>>]

\* a call of parse_datetime on any text, with and without has_time, beside
\* an empty store
InitParse ==
    /\ Construct(MissingFile)
    /\ \E text \in DatetimeTexts, has_time \in BOOLEAN :
          call = [fn |-> "parse_datetime", args |-> <<text, has_time>>, result |-> <<>>]

AddTodo == UNCHANGED call /\ \E todo \in BlockItems(FreeAddresses(todos)) : add_todo(todo)
AddPlain == UNCHANGED call /\ \E todo \in PlainItems(FreeAddresses(todos)) : add_todo(todo)
ListTodos == UNCHANGED call /\ \E sort_by \in SortKeys : list_todos(sort_by)
ToggleComplete == UNCHANGED call /\ \E index \in Indices : toggle_complete(index)
DeleteTodo == UNCHANGED call /\ \E index \in Indices : delete_todo(index)

Next == AddTodo \/ ListTodos \/ ToggleComplete \/ DeleteTodo
NextPlain == AddPlain \/ ListTodos \/ ToggleComplete \/ DeleteTodo

\* main with adds of a title alone and every number text
NextMain ==
    MainAddPlain \/ MainList \/ MainComplete \/ MainDelete \/ cmd_unknown \/ cmd_exit
\* main with adds of every kind and few number texts
NextMainAdd ==
    MainAdd \/ MainListFew \/ MainCompleteFew \/ MainDeleteFew \/ cmd_unknown \/ cmd_exit

Spec == Init /\ [][Next]_vars
SpecFresh == InitFresh /\ [][Next]_vars
SpecPlain == InitFresh /\ [][NextPlain]_vars
SpecList == InitList /\ [][ListTodos]_vars
SpecPriority == InitPriority /\ [][ListTodos]_vars
SpecValidate == InitValidate /\ [][ValidateTimeBlock]_vars
SpecConflict == InitConflict /\ [][HasTimeConflict]_vars
SpecRoundTrip == InitRoundTrip /\ [][FromDictToDict]_vars
SpecLoad == InitLoad /\ [][ConstructManager]_vars
SpecToggle == InitToggle /\ [][ToggleAgain]_vars
SpecParse == InitParse /\ [][ParseDatetime]_vars
SpecMain == InitMain /\ [][NextMain]_vars
SpecMainAdd == InitMain /\ [][NextMainAdd]_vars

\* ------------------------------------------------------------------ claims

\* x has a complete time block
HasBlock(x) == x.time_block_start # None /\ x.time_block_end # None
\* the half-open blocks of a and b overlap
BlocksOverlap(a, b) ==
    /\ HasBlock(a) /\ HasBlock(b)
    /\ a.time_block_start < b.time_block_end
    /\ a.time_block_end > b.time_block_start

\* C1: from an empty store, after any sequence of add_todo, toggle_complete
\* and delete_todo, no two distinct positions of the store hold items whose
\* complete time blocks overlap.
C1_NoOverlapInStore ==
    \A i, j \in 1..Len(todos) : i # j => ~BlocksOverlap(todos[i], todos[j])
\* an overlapping candidate has just been turned away from a store holding
\* two blocks
C1_Witness ==
    /\ out.op = "add_todo" /\ out.ret = "False"
    /\ \E i, j \in 1..Len(todos) : i # j /\ HasBlock(todos[i]) /\ HasBlock(todos[j])

\* C2: an add_todo whose candidate overlaps an item of the store (loaded
\* items included) returns False, names the title of an item the candidate
\* overlaps, leaves the list as it was and does not write the snapshot.
C2_ConflictRejected ==
    [][(/\ out'.op = "add_todo"
        /\ \E i \in 1..Len(todos) : BlocksOverlap(out'.args[1], todos[i]))
       => (/\ out'.ret = "False"
           /\ out'.printed[1] = "conflict"
           /\ \E i \in 1..Len(todos) :
                 /\ BlocksOverlap(out'.args[1], todos[i])
                 /\ out'.printed[2] = todos[i].title
           /\ todos' = todos
           /\ file' = file
           /\ ~out'.wrote)]_vars
\* a candidate was turned away by a loaded store whose own two items overlap,
\* and the title named is the second item's, not the first's
C2_Witness ==
    /\ out.op = "add_todo" /\ out.ret = "False"
    /\ Len(todos) >= 2
    /\ BlocksOverlap(todos[1], todos[2])
    /\ todos[1].title # todos[2].title
    /\ out.printed = <<"conflict", todos[2].title>>

\* C3: an add_todo whose candidate overlaps no item of the store returns
\* True, makes the store one longer with the candidate last, and keeps every
\* stored item at its position with its fields.
C3_NonConflictingAppended ==
    [][(/\ out'.op = "add_todo"
        /\ \A i \in 1..Len(todos) : ~BlocksOverlap(out'.args[1], todos[i]))
       => (/\ out'.ret = "True"
           /\ Len(todos') = Len(todos) + 1
           /\ todos'[Len(todos')] = out'.args[1]
           /\ \A i \in 1..Len(todos) : todos'[i] = todos[i])]_vars
\* a candidate without time block went in behind two items with blocks
C3_Witness ==
    /\ out.op = "add_todo" /\ out.ret = "True"
    /\ Len(todos) = 3
    /\ ~HasBlock(out.args[1])
    /\ HasBlock(todos[1]) /\ HasBlock(todos[2])

\* the last call was a mutation that went through: an accepted add, or a
\* toggle or delete that printed its confirmation
SuccessfulMutation ==
    \/ out.op = "add_todo" /\ out.ret = "True"
    \/ out.op = "toggle_complete" /\ out.printed = <<"updated">>
    \/ out.op = "delete_todo" /\ out.printed = <<"deleted">>

\* C4: when a successful mutation has returned, the snapshot is a JSON list
\* holding the record of each item of the store, one per item, in the
\* store's order, and nothing else.
C4_SnapshotMatchesStore ==
    SuccessfulMutation =>
        /\ file.kind = "json"
        /\ Len(file.data) = Len(todos)
        /\ \A i \in 1..Len(todos) : file.data[i] = to_dict(todos[i])
\* a toggle went through on a store of three, one of them now completed
C4_Witness ==
    /\ out.op = "toggle_complete" /\ out.printed = <<"updated">>
    /\ Len(todos) = 3
    /\ \E i \in 1..3 : todos[i].completed

\* C5: toggle_complete and delete_todo with an index outside
\* 0..len(todos)-1 leave the list as it was and do not write the snapshot.
C5_OutOfRangeNoEffect ==
    [][(/\ out'.op \in {"toggle_complete", "delete_todo"}
        /\ ~(0 <= out'.args[1] /\ out'.args[1] < Len(todos)))
       => (todos' = todos /\ file' = file /\ ~out'.wrote)]_vars
\* a toggle with a negative index returned on a store that is not empty
C5_Witness ==
    /\ out.op = "toggle_complete"
    /\ out.args[1] < 0
    /\ Len(todos) > 0

\* C6: delete_todo(i) with i in range removes the item at position i: the
\* list is one shorter, the items before i stay, the items after i move down
\* by one, and no item changes.
C6_DeleteShifts ==
    [][(/\ out'.op = "delete_todo"
        /\ 0 <= out'.args[1] /\ out'.args[1] < Len(todos))
       => (/\ Len(todos') = Len(todos) - 1
           /\ \A k \in 1..Len(todos') :
                 todos'[k] = IF k <= out'.args[1] THEN todos[k] ELSE todos[k + 1])]_vars
\* index 0 was deleted from a store of three
C6_Witness ==
    /\ out.op = "delete_todo" /\ out.printed = <<"deleted">>
    /\ out.args[1] = 0
    /\ Len(todos) = 2

\* x has the field the key sort_by reads
HasSortField(x, sort_by) ==
    IF sort_by = "deadline" THEN x.deadline # None ELSE x.time_block_start # None
SortField(x, sort_by) ==
    IF sort_by = "deadline" THEN x.deadline ELSE x.time_block_start

\* C7: for the keys deadline and time, list_todos shows the items in
\* ascending order of the field, the items without the field after all the
\* items that have it.
C7_AscendingAbsentLast ==
    (out.op = "list_todos" /\ out.args[1] \in {"deadline", "time"}) =>
        \A i, j \in 1..Len(out.shown) :
            (i < j /\ HasSortField(out.shown[j], out.args[1])) =>
                /\ HasSortField(out.shown[i], out.args[1])
                /\ SortField(out.shown[i], out.args[1])
                       <= SortField(out.shown[j], out.args[1])

\* C8: for the key priority, list_todos shows a permutation of the store in
\* which each item's priority is at most that of the item shown after it.
C8_PriorityAscending ==
    (out.op = "list_todos" /\ out.args[1] = "priority") =>
        /\ Len(out.shown) = Len(todos)
        /\ \E p \in Permutations(1..Len(todos)) :
              \A i \in 1..Len(todos) : out.shown[i] = todos[p[i]]
        /\ \A i \in 1..(Len(out.shown) - 1) :
              out.shown[i].priority <= out.shown[i + 1].priority
\* items inserted with priorities 3, 1, 2 are shown as 1, 2, 3
C8_Witness ==
    /\ out.op = "list_todos" /\ out.args[1] = "priority"
    /\ Len(todos) = 3 /\ Len(out.shown) = 3
    /\ <<todos[1].priority, todos[2].priority, todos[3].priority>> = <<3, 1, 2>>
    /\ <<out.shown[1].priority, out.shown[2].priority, out.shown[3].priority>> = <<1, 2, 3>>

\* C9: list_todos, whatever the key, leaves the list and the snapshot as
\* they were and writes nothing.
C9_ListLeavesStore ==
    [][out'.op = "list_todos"
       => (todos' = todos /\ file' = file /\ ~out'.wrote)]_vars
\* a listing of a store of three showed an order that is not the store's
C9_Witness ==
    /\ out.op = "list_todos" /\ out.ret = "None"
    /\ Len(todos) = 3
    /\ out.shown # todos

\* the one- and two-digit decimal texts of n
NumberTexts(n) ==
    {<<Digits[(n \div 10) + 1], Digits[(n % 10) + 1]>>}
    \cup (IF n < 10 THEN {<<Digits[n + 1]>>} ELSE {})
\* the texts that name a time of day, each with its minute of the day
TimesOfDay ==
    UNION {{<<ht \o <<":">> \o mt, 60 * h + m>> : ht \in NumberTexts(h), mt \in NumberTexts(m)} :
              h \in 0..23, m \in 0..59}
IsTimeOfDay(t) == \E p \in TimesOfDay : p[1] = t
MinuteOfDay(t) == (CHOOSE p \in TimesOfDay : p[1] = t)[2]

C11_RoundTrip ==
    (call.fn = "from_dict" /\ call.result # <<>>) => call.result[1] = call.args[1]
\* the round trip returns the item in every field but the id
RoundTripButId ==
    (call.fn = "from_dict" /\ call.result # <<>>) =>
        [call.result[1] EXCEPT !.id = call.args[1].id] = call.args[1]

\* the values of an item's record in the snapshot
IsTimestamp(v) == v = <<>> \/ (Len(v) = 2 /\ v[1] = "iso")
IsItemRecord(r) ==
    /\ DOMAIN r = {"id", "title", "deadline", "priority", "completed",
                   "time_block_start", "time_block_end"}
    /\ IsTimestamp(r.deadline)
    /\ IsTimestamp(r.time_block_start)
    /\ IsTimestamp(r.time_block_end)
IsSnapshot(f) == f.kind = "json" /\ \A i \in 1..Len(f.data) : IsItemRecord(f.data[i])

\* C12: the construction of a manager completes whatever the file holds, and
\* the store is empty when the file is missing or is not a list of items'
\* records.
C12_LoadNeverFails ==
    (call.fn = "TodoManager" /\ call.result # <<>>) =>
        /\ call.result = <<"None">>
        /\ ~IsSnapshot(file) => todos = <<>>

\* C13: has_time_conflict returns False when either item lacks its start or
\* its end, and otherwise True exactly when self.start < other.end and
\* self.end > other.start; two blocks that only touch do not conflict.
C13_HalfOpenOverlap ==
    (call.fn = "has_time_conflict" /\ call.result # <<>>) =>
        LET a == call.args[1]
            b == call.args[2]
        IN  /\ call.result[1] = BlocksOverlap(a, b)
            /\ (~HasBlock(a) \/ ~HasBlock(b)) => ~call.result[1]
            /\ (/\ HasBlock(a) /\ HasBlock(b)
                /\ a.time_block_end = b.time_block_start \/ b.time_block_end = a.time_block_start)
               => ~call.result[1]
\* the block 0..1 was found not to conflict with the block 1..2
C13_Witness ==
    /\ call.fn = "has_time_conflict" /\ call.result # <<>>
    /\ <<call.args[1].time_block_start, call.args[1].time_block_end>> = <<0, 1>>
    /\ <<call.args[2].time_block_start, call.args[2].time_block_end>> = <<1, 2>>
    /\ ~call.result[1]

\* C14: for all items a and b, with or without time blocks,
\* a.has_time_conflict(b) equals b.has_time_conflict(a).
C14_Symmetric ==
    (call.fn = "has_time_conflict" /\ call.result # <<>>) =>
        call.result[1] = call.result[2]
\* two different blocks, one inside the other, conflict in both directions
C14_Witness ==
    /\ call.fn = "has_time_conflict" /\ call.result = <<TRUE, TRUE>>
    /\ <<call.args[1].time_block_start, call.args[1].time_block_end>> = <<0, 2>>
    /\ <<call.args[2].time_block_start, call.args[2].time_block_end>> = <<1, 2>>

\* the formats with a time of day, and those without, in the order of the list
TimeFormats == <<formats[1], formats[3]>>
DateFormats == <<formats[2], formats[4]>>

\* C15: parse_datetime returns the first parse among the formats with a
\* time of day when has_time is true and among the date-only formats when it
\* is false, None when none of them parses; a date-only text with has_time
\* true and a text with a time of day with has_time false give None.
C15_FormatsByHasTime ==
    (call.fn = "parse_datetime" /\ call.result # <<>>) =>
        LET text == call.args[1]
            has_time == call.args[2]
        IN  /\ call.result[1] = FirstParse(IF has_time THEN TimeFormats ELSE DateFormats, text)
            /\ (has_time /\ FirstParse(DateFormats, text) # None) => call.result[1] = None
            /\ (~has_time /\ FirstParse(TimeFormats, text) # None) => call.result[1] = None
\* with has_time false the result is the first parse among the date-only
\* formats
ParseWithoutTime ==
    (call.fn = "parse_datetime" /\ call.result # <<>> /\ ~call.args[2]) =>
        call.result[1] = FirstParse(DateFormats, call.args[1])

\* the position of the item x in the list (the ids of a list differ)
PositionIn(list, x) == CHOOSE k \in 1..Len(list) : list[k] = x
\* x and y tie under the key sort_by
SameKey(x, y, sort_by) ==
    IF sort_by = "priority" THEN x.priority = y.priority
    ELSE IF sort_by = "deadline" THEN x.deadline = y.deadline
    ELSE IF sort_by = "time" THEN x.time_block_start = y.time_block_start
    ELSE x.id = y.id

\* C16: whatever the key, two items that tie under it (equal priority, equal
\* deadline or both without, equal block start or both without) are shown by
\* list_todos in the order they have in the store.
C16_TiesInStoreOrder ==
    out.op = "list_todos" =>
        \A i, j \in 1..Len(out.shown) :
            (i < j /\ SameKey(out.shown[i], out.shown[j], out.args[1])) =>
                PositionIn(todos, out.shown[i]) < PositionIn(todos, out.shown[j])
\* a listing by deadline moved the items without deadline at positions 1 and
\* 3 of the store next to each other, the first of them still first
C16_Witness ==
    /\ out.op = "list_todos" /\ out.args[1] = "deadline"
    /\ Len(todos) = 3
    /\ todos[1].deadline = None /\ todos[2].deadline # None /\ todos[3].deadline = None
    /\ out.shown = <<todos[1], todos[3], todos[2]>>

\* after differs from before in the completed flag of position k alone,
\* which is negated
OnlyFlagNegated(before, after, k) ==
    /\ Len(after) = Len(before)
    /\ \A j \in 1..Len(before) :
          /\ after[j].id = before[j].id
          /\ after[j].title = before[j].title
          /\ after[j].deadline = before[j].deadline
          /\ after[j].priority = before[j].priority
          /\ after[j].time_block_start = before[j].time_block_start
          /\ after[j].time_block_end = before[j].time_block_end
          /\ after[j].completed = IF j = k THEN ~before[j].completed
                                  ELSE before[j].completed

\* C17: toggle_complete(i) with 0 <= i < len(todos) negates the completed
\* flag of position i and leaves every other field, every other item, the
\* length and the order as they were; a second call with the same index
\* gives back the list the first call found.
C17_ToggleNegatesFlag ==
    (/\ call.fn = "toggle_complete"
     /\ 0 <= call.args[1] /\ call.args[1] < Len(todos)) =>
        /\ \A n \in 1..Len(call.result) :
              OnlyFlagNegated(call.result[n],
                              IF n < Len(call.result) THEN call.result[n + 1] ELSE todos,
                              call.args[1] + 1)
        /\ Len(call.result) = 2 => todos = call.result[1]
\* index 1 was toggled twice on a store of three whose second item was
\* completed when the first call came
C17_Witness ==
    /\ call.fn = "toggle_complete" /\ call.args[1] = 1
    /\ Len(call.result) = 2
    /\ Len(todos) = 3
    /\ call.result[1][2].completed
    /\ ~call.result[2][2].completed
    /\ todos[2].completed

\* a text without its blanks, and a text of blanks alone
NotBlank(c) == c # " "
WithoutBlanks(t) == SelectSeq(t, NotBlank)
IsBlank(t) == WithoutBlanks(t) = <<>>
\* the positions 1..len of the list that the text names as a decimal number
PositionsNamed(text, list) ==
    {n \in 1..Len(list) : WithoutBlanks(text) \in NumberTexts(n)}

\* C18: complete n and delete n in the command loop act on position n of
\* the store counted from 1 (index n - 1), also when the command before was
\* a list that showed another order; with n = 0, n > len(todos), a negative
\* n or a text that is no number, the store and the snapshot stay as they
\* were.
C18_NumberedFromOne ==
    [][(call'.fn = "main" /\ call'.args[1] \in {"complete", "delete"}) =>
          LET named == PositionsNamed(call'.args[2], todos)
          IN  IF named = {} THEN todos' = todos /\ file' = file
              ELSE \A n \in named :
                      IF call'.args[1] = "complete"
                      THEN OnlyFlagNegated(todos, todos', n)
                      ELSE /\ Len(todos') = Len(todos) - 1
                           /\ \A k \in 1..Len(todos') :
                                 todos'[k] = IF k < n THEN todos[k] ELSE todos[k + 1]]_vars
\* complete 2 marked the second item of a store of three, which a listing by
\* id does not show second
C18_Witness ==
    /\ call.fn = "main" /\ call.args = <<"complete", <<"2">>>>
    /\ out.op = "toggle_complete" /\ out.printed = <<"updated">>
    /\ Len(todos) = 3
    /\ ~todos[1].completed /\ todos[2].completed /\ ~todos[3].completed
    /\ sorted(todos, "id", sort_reverse("id"))[2] # todos[2]

\* the item x is well formed: a title, a priority 1..5, start and end both
\* or neither, and a start at least ten minutes before the end
WellFormed(x) ==
    /\ x.title # <<>>
    /\ x.priority \in 1..5
    /\ (x.time_block_start = None) <=> (x.time_block_end = None)
    /\ x.time_block_start # None =>
          /\ x.time_block_start < x.time_block_end
          /\ x.time_block_end - x.time_block_start >= 10
\* the texts of an add that pass its checks
DeadlineTextOk(t) == IsBlank(t) \/ FirstParse(DateFormats, strip(t)) # None
PriorityTextOk(t) == IsBlank(t) \/ \E n \in 1..5 : WithoutBlanks(t) \in NumberTexts(n)
BlockTextOk(t) ==
    \/ IsBlank(t)
    \/ \E dash \in 1..Len(t) :
          /\ t[dash] = "-"
          /\ \A i \in 1..(dash - 1) : t[i] # "-"
          /\ LET s == WithoutBlanks(SubSeq(t, 1, dash - 1))
                 e == WithoutBlanks(SubSeq(t, dash + 1, Len(t)))
             IN  /\ IsTimeOfDay(s) /\ IsTimeOfDay(e)
                 /\ MinuteOfDay(e) - MinuteOfDay(s) >= 10
\* one of the texts the add command args has read fails its check
AddFails(args) ==
    \/ Len(args) >= 2 /\ IsBlank(args[2])
    \/ Len(args) >= 3 /\ ~DeadlineTextOk(args[3])
    \/ Len(args) >= 4 /\ ~PriorityTextOk(args[4])
    \/ Len(args) >= 5 /\ ~BlockTextOk(args[5])

\* C19: from an empty store, after any sequence of commands of the loop,
\* every stored item is well formed; and an add one of whose texts fails its
\* check (empty title, unparseable deadline, priority outside 1..5, time
\* block that is no start-end of at least ten minutes) leaves the store as
\* it was and writes nothing.
C19_StoredItemsWellFormed ==
    /\ [](\A i \in 1..Len(todos) : WellFormed(todos[i]))
    /\ [][(call'.fn = "main" /\ call'.args[1] = "add" /\ AddFails(call'.args))
          => (todos' = todos /\ file' = file /\ ~out'.wrote)]_vars
\* an add with a block of nine minutes was turned away by a store that holds
\* a block of exactly ten minutes
C19_Witness ==
    /\ call.fn = "main" /\ call.args[1] = "add"
    /\ call.result = <<"block shorter than 10 minutes">>
    /\ \E i \in 1..Len(todos) :
          /\ todos[i].time_block_start # None
          /\ todos[i].time_block_end - todos[i].time_block_start = 10

\* C20 as stated: every item with both a start and an end conflicts with
\* itself.
C20_SelfConflict ==
    (/\ call.fn = "has_time_conflict" /\ call.result # <<>>
     /\ call.args[2] = call.args[1]
     /\ HasBlock(call.args[1]))
    => call.result[1]
\* C20: every item with both a start and an end, the start before the end,
\* conflicts with itself.
C20_SelfConflictOrdered ==
    (/\ call.fn = "has_time_conflict" /\ call.result # <<>>
     /\ call.args[2] = call.args[1]
     /\ HasBlock(call.args[1])
     /\ call.args[1].time_block_start < call.args[1].time_block_end)
    => call.result[1]
\* the item with the block 0..1 was compared with itself
C20_Witness ==
    /\ call.fn = "has_time_conflict" /\ call.result # <<>>
    /\ call.args[2] = call.args[1]
    /\ <<call.args[1].time_block_start, call.args[1].time_block_end>> = <<0, 1>>
    /\ call.result[1]

====
